---- MODULE Spec2Model ----
(***************************************************************************)
(* Trading bot decision core: the polling scheduler of strategy/core.ts    *)
(* (startTradingLoop / runLoop / stopTradingLoop) driving the strategy     *)
(* cycle runMeanReversionLogic of strategy/meanReversion.ts (the EMA       *)
(* revision), against an exchange account that fills orders on its own     *)
(* schedule.                                                               *)
(*                                                                         *)
(* Units.  Prices and collateral are whole quote units.  Base sizes are    *)
(* hundredths of a base unit (the two decimals the code floors to), so     *)
(* size * price is a quote value in cents.  Fractions of the configuration *)
(* are whole percents; z-score thresholds are tenths.  The EMA is an exact *)
(* rational <<n, d>> (not reduced); d = 0 stands for null.  The z-score is *)
(* kept as its sign and its exact square num / den.                        *)
(***************************************************************************)
EXTENDS Integers, Sequences, FiniteSets, TLC

\* ---------------------------------------------------------------- bounds
\* Lookback period and queue capacity, scaled down from the source's 21 and
\* 90 so that a window fills within the tick budget.
CALCULATION_PERIOD == 2
MAX_QUEUE_LENGTH == 3
\* Entry threshold in tenths, scaled with the period (|z| <= sqrt(period)).
Z_SCORE_ENTRY_THRESHOLD == 5
\* Ticks begun over a whole run, effective start() calls (one runLoop chain
\* each), failed external calls / unavailable data, and position closes made
\* by something other than the bot.
MaxTicks == 4
MaxStarts == 2
MaxFaults == 1
MaxExternal == 1

\* ------------------------------------------------- configuration constants
Z_SCORE_EXIT_THRESHOLD == 3
PORTFOLIO_RISK_PER_TRADE == 5
MAX_PORTFOLIO_ALLOCATION == 40
MINIMUM_PROFIT_PERCENTAGE == 1
MAX_LOSS_PERCENTAGE == 5
TAKE_PROFIT_PERCENTAGE == 5
LEVERAGE_FACTOR == 5

\* null of the number-or-null variables (all their values are >= 0)
Null == -1

\* ------------------------------------------------------------ input sets
Prices == {92, 97, 100}
Collaterals == {0, 400}
MinOrderSizes == {10}
TakerFees == {10}

Chains == 1..MaxStarts

\* ------------------------------------------------------------- arithmetic
Abs(x) == IF x < 0 THEN -x ELSE x

Sign(x) == IF x < 0 THEN -1 ELSE IF x > 0 THEN 1 ELSE 0

Max(a, b) == IF a >= b THEN a ELSE b

\* the one element of a singleton set; {F(v) : v \in {e}} evaluates e once
The(S) == CHOOSE x \in S : TRUE

NullEMA == <<0, 0>>

NullZ == [sgn |-> 0, num |-> 0, den |-> 0]

\* priceData.slice(-period)
LastN(s, n) == SubSeq(s, Len(s) - n + 1, Len(s))

RECURSIVE SumSeq(_)
SumSeq(s) == IF s = <<>> THEN 0 ELSE Head(s) + SumSeq(Tail(s))

\* sum over the slice of (val * d - n)^2, i.e. d^2 * sum (val - ema)^2
RECURSIVE SumSqDev(_, _)
SumSqDev(s, ema) ==
  IF s = <<>> THEN 0
  ELSE (Head(s) * ema[2] - ema[1]) * (Head(s) * ema[2] - ema[1])
       + SumSqDev(Tail(s), ema)

\* ------------------------------------------------------------- indicators
\* mutant: without a previous EMA the simple average itself is returned
calculateEMASeedOnly(currentPrice, period, previousEMA, priceData) ==
  IF Len(priceData) < period THEN NullEMA
  ELSE IF previousEMA = NullEMA
  THEN <<SumSeq(LastN(priceData, period)), period>>
  ELSE <<2 * currentPrice * previousEMA[2] + previousEMA[1] * (period - 1),
         previousEMA[2] * (period + 1)>>

\* mutant: no length check, the seed is the mean of whatever data there is
calculateEMAUnchecked(currentPrice, period, previousEMA, priceData) ==
  LET prev == IF previousEMA # NullEMA THEN previousEMA
              ELSE <<SumSeq(priceData), Len(priceData)>>
  IN <<2 * currentPrice * prev[2] + prev[1] * (period - 1),
       prev[2] * (period + 1)>>

calculateEMA(currentPrice, period, previousEMA, priceData) ==
  IF Len(priceData) < period THEN NullEMA
  ELSE
    LET prev == IF previousEMA # NullEMA THEN previousEMA
                ELSE <<SumSeq(LastN(priceData, period)), period>>
    IN <<2 * currentPrice * prev[2] + prev[1] * (period - 1),
         prev[2] * (period + 1)>>

\* The variance relative to the EMA is returned as the numerator S of
\* S / (d^2 * period); the deviation is its square root, which is 0 iff
\* S = 0.  Null when the EMA is null or the data is short.
calculateStdDev(data, ema, period) ==
  IF ema = NullEMA \/ Len(data) < period THEN Null
  ELSE SumSqDev(LastN(data, period), ema)

\* mutant: a zero deviation gives a z-score of 0 instead of none
ZScoreOfZeroOnFlat(currentPrice, ema, sumSq, period) ==
  IF ema = NullEMA \/ sumSq = Null THEN NullZ
  ELSE IF sumSq = 0 THEN [sgn |-> 0, num |-> 0, den |-> 1]
  ELSE
    LET x == currentPrice * ema[2] - ema[1]
    IN [sgn |-> Sign(x), num |-> period * x * x, den |-> sumSq]

\* zScore = (currentPrice - currentEMA) / currentStdDev when the deviation
\* is > 0: its sign, and its square period * X^2 / S with X = price*d - n.
ZScoreOf(currentPrice, ema, sumSq, period) ==
  IF ema = NullEMA \/ sumSq = Null \/ sumSq = 0 THEN NullZ
  ELSE
    LET x == currentPrice * ema[2] - ema[1]
    IN [sgn |-> Sign(x), num |-> period * x * x, den |-> sumSq]

\* |z| > t/10, on the exact square: num > t^2 * den / 100, the right side
\* floored and computed in two parts
AbsZAbove(z, t) ==
  z.num > t * t * (z.den \div 100) + (t * t * (z.den % 100)) \div 100

ZBelowNeg(z, t) == z.sgn < 0 /\ AbsZAbove(z, t)

ZAbove(z, t) == z.sgn > 0 /\ AbsZAbove(z, t)

\* z >= -t/10 and z <= t/10
ZAtLeastNeg(z, t) == ~ZBelowNeg(z, t)

ZAtMost(z, t) == ~ZAbove(z, t)

\* ------------------------------------------------------------------ state
VARIABLES
  isBotRunning,          \* core.ts: the run flag
  loopTimeoutId,         \* core.ts: chain whose timer was armed last, 0 = null
  priceQueue,            \* strategy state
  takerFeePercentState,  \* hundredths of a percent, or Null
  currentEntryPrice,     \* price, or Null
  lastEMA,               \* <<n, d>>, or NullEMA
  chain,                 \* per runLoop closure: where it stands, tick locals
  timers,                \* pending setTimeout callbacks, in firing order
  position,              \* exchange account: signed base size
  pendingOrders,         \* orders accepted by the exchange, not yet filled
  nTicks,                \* ticks begun
  nStarts,               \* runLoop closures created
  faults,                \* failed external calls so far
  externals,             \* external closes so far
  op,                    \* the operation that made the last step
  lastIssue,             \* the last trading call: kind, position when issued
  actions,               \* successful Enter / Exit actions, in order
  lastCheck              \* what the tick stretch of the last step saw and did

stratVars == <<priceQueue, takerFeePercentState, currentEntryPrice, lastEMA>>

schedVars == <<isBotRunning, loopTimeoutId, chain, timers>>

envVars == <<position, pendingOrders>>

histVars ==
  <<nTicks, nStarts, faults, externals, op, lastIssue, actions, lastCheck>>

vars == <<stratVars, schedVars, envVars, histVars>>

\* A chain that is not inside a tick: "unused", "timer" (its timer is
\* pending) or "ended" (its runLoop returned without rescheduling, or its
\* timer was cleared).
Parked(pc) ==
  [pc |-> pc, currentPrice |-> 0, zScore |-> NullZ, positionSizeBase |-> 0,
   actualTradeSizeBase |-> 0, totalCollateral |-> 0,
   orderDir |-> 0, orderAmt |-> 0, tick |-> 0, acts |-> 0]

\* the strategy state of a freshly loaded module
FreshEngine == <<<<>>, Null, Null, NullEMA>>

InFlight(c) == chain[c].pc \in {"fee", "close", "order"}

TicksInFlight == {c \in Chains : InFlight(c)}

NoIssue == [kind |-> "none", pos |-> 0, tick |-> 0, count |-> 0]

\* The last step was not a stretch of runMeanReversionLogic up to a decision.
NoCheck ==
  [stage |-> "none", missing |-> "", tick |-> 0, currentPrice |-> 0,
   shifted |-> FALSE, stdDev |-> Null, zScore |-> NullZ, queueLength |-> 0,
   positionSizeBase |-> 0, totalCollateral |-> 0, entry |-> Null,
   fee |-> Null, act |-> "none", why |-> "",
   minStep |-> 0, actualTradeSizeBase |-> 0, orderDir |-> 0, orderAmt |-> 0,
   lookupFailed |-> FALSE]

Init ==
  /\ isBotRunning = FALSE
  /\ loopTimeoutId = 0
  /\ priceQueue = <<>>
  /\ takerFeePercentState = Null
  /\ currentEntryPrice = Null
  /\ lastEMA = NullEMA
  /\ chain = [c \in Chains |-> Parked("unused")]
  /\ timers = <<>>
  /\ position = 0
  /\ pendingOrders = <<>>
  /\ nTicks = 0
  /\ nStarts = 0
  /\ faults = 0
  /\ externals = 0
  /\ op = "init"
  /\ lastIssue = NoIssue
  /\ actions = <<>>
  /\ lastCheck = NoCheck

\* ------------------------------------------------- the strategy cycle
\* Quote value (cents) of the desired trade: buyingPower * risk.
DesiredTradeValueQuote(totalCollateral) ==
  totalCollateral * LEVERAGE_FACTOR * PORTFOLIO_RISK_PER_TRADE

\* mutant: the desired size is rounded to the nearest hundredth
ActualTradeSizeBaseRounded(totalCollateral, currentPrice, minOrderSizeNumber) ==
  Max((2 * DesiredTradeValueQuote(totalCollateral) + currentPrice)
        \div (2 * currentPrice),
      minOrderSizeNumber)

\* Math.max(Math.floor(desiredTradeSizeBase * 100) / 100, minOrderSize)
ActualTradeSizeBase(totalCollateral, currentPrice, minOrderSizeNumber) ==
  Max(DesiredTradeValueQuote(totalCollateral) \div currentPrice,
      minOrderSizeNumber)

EstimatedPnl(positionSizeBase, currentPrice, entryPrice) ==
  IF positionSizeBase > 0
  THEN positionSizeBase * (currentPrice - entryPrice)
  ELSE positionSizeBase * (entryPrice - currentPrice)

InitialPositionValueQuote(positionSizeBase, entryPrice) ==
  Abs(positionSizeBase) * entryPrice

\* estimatedPnl < 0 && |estimatedPnl| >= initialValue * MAX_LOSS_PERCENTAGE
StopLossHit(pnl, initialValue) ==
  pnl < 0 /\ 100 * Abs(pnl) >= initialValue * MAX_LOSS_PERCENTAGE

\* initialValue > 0 && estimatedPnl / initialValue >= TAKE_PROFIT_PERCENTAGE
PercentTakeProfitHit(pnl, initialValue) ==
  initialValue > 0 /\ 100 * pnl >= initialValue * TAKE_PROFIT_PERCENTAGE

TakeProfitThresholdMet(positionSizeBase, zScore) ==
  IF positionSizeBase > 0
  THEN ZAtLeastNeg(zScore, Z_SCORE_EXIT_THRESHOLD)
  ELSE ZAtMost(zScore, Z_SCORE_EXIT_THRESHOLD)

\* mutant: the round-trip fee cost is left out of the threshold
AboveProfitThresholdNoFee(amount, totalCollateral, fee, initialValue) ==
  amount > (10000 * initialValue * MINIMUM_PROFIT_PERCENTAGE) \div 1000000

\* amount > estimatedRoundTripFeeCostQuote + dynamicMinProfitTargetQuote,
\* with the fee in units of 1e-4 percent: both sides times 10^6.
AboveProfitThreshold(amount, totalCollateral, fee, initialValue) ==
  amount > (2 * DesiredTradeValueQuote(totalCollateral) * fee
            + 10000 * initialValue * MINIMUM_PROFIT_PERCENTAGE)
           \div 1000000

\* mutant: the same test of the PnL for both sides
ProfitSufficientOneSign(positionSizeBase, pnl, totalCollateral, fee, initialValue) ==
  /\ positionSizeBase # 0
  /\ pnl > 0
  /\ AboveProfitThreshold(pnl, totalCollateral, fee, initialValue)

\* profitSufficient: estimatedPnl > 0 for a long, < 0 for a short, and its
\* magnitude above the threshold
ProfitSufficient(positionSizeBase, pnl, totalCollateral, fee, initialValue) ==
  IF positionSizeBase > 0
  THEN pnl > 0 /\ AboveProfitThreshold(pnl, totalCollateral, fee, initialValue)
  ELSE IF positionSizeBase < 0
  THEN pnl < 0
       /\ AboveProfitThreshold(Abs(pnl), totalCollateral, fee, initialValue)
  ELSE FALSE

Hold(why) == [act |-> "none", why |-> why, dir |-> 0]

\* mutant: no stop-loss branch
ExitDecisionNoStopLoss(L, entry, fee) ==
  LET pnl == EstimatedPnl(L.positionSizeBase, L.currentPrice, entry)
      initialValue == InitialPositionValueQuote(L.positionSizeBase, entry)
  IN IF PercentTakeProfitHit(pnl, initialValue)
     THEN [act |-> "exit", why |-> "percentTakeProfit", dir |-> 0]
     ELSE IF /\ TakeProfitThresholdMet(L.positionSizeBase, L.zScore)
             /\ ProfitSufficient(L.positionSizeBase, pnl, L.totalCollateral,
                                 fee, initialValue)
     THEN [act |-> "exit", why |-> "zScoreTakeProfit", dir |-> 0]
     ELSE Hold("holdPosition")

\* mutant: the percentage take-profit is taken only on a reverted z-score
ExitDecisionPercentOnSignal(L, entry, fee) ==
  LET pnl == EstimatedPnl(L.positionSizeBase, L.currentPrice, entry)
      initialValue == InitialPositionValueQuote(L.positionSizeBase, entry)
  IN IF StopLossHit(pnl, initialValue)
     THEN [act |-> "exit", why |-> "stopLoss", dir |-> 0]
     ELSE IF /\ PercentTakeProfitHit(pnl, initialValue)
             /\ TakeProfitThresholdMet(L.positionSizeBase, L.zScore)
     THEN [act |-> "exit", why |-> "percentTakeProfit", dir |-> 0]
     ELSE IF /\ TakeProfitThresholdMet(L.positionSizeBase, L.zScore)
             /\ ProfitSufficient(L.positionSizeBase, pnl, L.totalCollateral,
                                 fee, initialValue)
     THEN [act |-> "exit", why |-> "zScoreTakeProfit", dir |-> 0]
     ELSE Hold("holdPosition")

\* The exit conditions, for a position with known entry price and fee.
ExitDecision(L, entry, fee) ==
  LET pnl == EstimatedPnl(L.positionSizeBase, L.currentPrice, entry)
      initialValue == InitialPositionValueQuote(L.positionSizeBase, entry)
  IN IF StopLossHit(pnl, initialValue)
     THEN [act |-> "exit", why |-> "stopLoss", dir |-> 0]
     ELSE IF PercentTakeProfitHit(pnl, initialValue)
     THEN [act |-> "exit", why |-> "percentTakeProfit", dir |-> 0]
     ELSE IF /\ TakeProfitThresholdMet(L.positionSizeBase, L.zScore)
             /\ ProfitSufficient(L.positionSizeBase, pnl, L.totalCollateral,
                                 fee, initialValue)
     THEN [act |-> "exit", why |-> "zScoreTakeProfit", dir |-> 0]
     ELSE Hold("holdPosition")

\* mutant: the entry threshold itself already triggers an entry
EntryDecisionInclusive(L, fee) ==
  IF Abs(L.positionSizeBase) * L.currentPrice
       >= L.totalCollateral * MAX_PORTFOLIO_ALLOCATION
  THEN Hold("allocation")
  ELSE IF fee = Null THEN Hold("noFee")
  ELSE IF L.zScore.sgn < 0
          /\ L.zScore.num * 100 >= Z_SCORE_ENTRY_THRESHOLD
                                     * Z_SCORE_ENTRY_THRESHOLD * L.zScore.den
  THEN [act |-> "enter", why |-> "entryLong", dir |-> 1]
  ELSE IF L.zScore.sgn > 0
          /\ L.zScore.num * 100 >= Z_SCORE_ENTRY_THRESHOLD
                                     * Z_SCORE_ENTRY_THRESHOLD * L.zScore.den
  THEN [act |-> "enter", why |-> "entryShort", dir |-> -1]
  ELSE Hold("noSignal")

\* mutant: an entry does not wait for the fee
EntryDecisionNoFee(L, fee) ==
  IF Abs(L.positionSizeBase) * L.currentPrice
       >= L.totalCollateral * MAX_PORTFOLIO_ALLOCATION
  THEN Hold("allocation")
  ELSE IF ZBelowNeg(L.zScore, Z_SCORE_ENTRY_THRESHOLD)
  THEN [act |-> "enter", why |-> "entryLong", dir |-> 1]
  ELSE IF ZAbove(L.zScore, Z_SCORE_ENTRY_THRESHOLD)
  THEN [act |-> "enter", why |-> "entryShort", dir |-> -1]
  ELSE Hold("noSignal")

\* The entry conditions (the block under positionSizeBase === 0).
EntryDecision(L, fee) ==
  IF Abs(L.positionSizeBase) * L.currentPrice
       >= L.totalCollateral * MAX_PORTFOLIO_ALLOCATION
  THEN Hold("allocation")
  ELSE IF fee = Null THEN Hold("noFee")
  ELSE IF ZBelowNeg(L.zScore, Z_SCORE_ENTRY_THRESHOLD)
  THEN [act |-> "enter", why |-> "entryLong", dir |-> 1]
  ELSE IF ZAbove(L.zScore, Z_SCORE_ENTRY_THRESHOLD)
  THEN [act |-> "enter", why |-> "entryShort", dir |-> -1]
  ELSE Hold("noSignal")

\* mutant: a position that cannot be evaluated falls through to the entry
\* conditions
DecideFallThrough(L, queueLength, entry, fee) ==
  IF queueLength < CALCULATION_PERIOD THEN Hold("shortQueue")
  ELSE IF L.zScore = NullZ THEN Hold("noZScore")
  ELSE IF L.positionSizeBase # 0 /\ entry # Null /\ fee # Null
  THEN ExitDecision(L, entry, fee)
  ELSE EntryDecision(L, fee)

\* mutant: the stop-loss is checked ahead of the guards
DecideStopLossAhead(L, queueLength, entry, fee) ==
  IF /\ L.positionSizeBase # 0
     /\ entry # Null
     /\ StopLossHit(EstimatedPnl(L.positionSizeBase, L.currentPrice, entry),
                    InitialPositionValueQuote(L.positionSizeBase, entry))
  THEN [act |-> "exit", why |-> "stopLoss", dir |-> 0]
  ELSE IF queueLength < CALCULATION_PERIOD THEN Hold("shortQueue")
  ELSE IF L.zScore = NullZ THEN Hold("noZScore")
  ELSE IF L.positionSizeBase # 0 /\ entry # Null /\ fee # Null
  THEN ExitDecision(L, entry, fee)
  ELSE IF L.positionSizeBase # 0 THEN Hold("indeterminate")
  ELSE EntryDecision(L, fee)

\* Guards and exit / entry conditions of one tick, on the tick's locals L
\* and the strategy state as it is when the code reaches them.
Decide(L, queueLength, entry, fee) ==
  IF queueLength < CALCULATION_PERIOD THEN Hold("shortQueue")
  ELSE IF L.zScore = NullZ THEN Hold("noZScore")
  ELSE IF L.positionSizeBase # 0 /\ entry # Null /\ fee # Null
  THEN ExitDecision(L, entry, fee)
  ELSE IF L.positionSizeBase # 0 THEN Hold("indeterminate")
  ELSE EntryDecision(L, fee)

\* What one synchronous stretch of a tick leaves behind: the strategy state,
\* the tick's locals (pc "done" when runMeanReversionLogic has returned),
\* the trading call it made if any, and the failures it met.
Outcome(queue, ema, fee, entry, loc, kind, success, failed) ==
  [queue |-> queue, ema |-> ema, fee |-> fee, entry |-> entry, loc |-> loc,
   kind |-> kind, success |-> success, failed |-> failed]

Done(L) == [L EXCEPT !.pc = "done"]

\* mutant: the closing order is sent on the position's own side
CloseCallSameSide(L, queue, ema, fee, entry, failed) ==
  IF position = 0
  THEN Outcome(queue, ema, fee, Null,
               Done([L EXCEPT !.acts = @ + 1]), "exit", "Exit", failed)
  ELSE Outcome(queue, ema, fee, entry,
               [L EXCEPT !.pc = "close", !.orderDir = Sign(position),
                         !.orderAmt = Abs(position), !.acts = @ + 1],
               "exit", "", failed)

\* closePosition up to its await: no position -> resolves to null at once
\* (the caller then clears the entry price); otherwise a reduce-only order
\* for the full size against the position's sign is sent.
CloseCall(L, queue, ema, fee, entry, failed) ==
  IF position = 0
  THEN Outcome(queue, ema, fee, Null,
               Done([L EXCEPT !.acts = @ + 1]), "exit", "Exit", failed)
  ELSE Outcome(queue, ema, fee, entry,
               [L EXCEPT !.pc = "close", !.orderDir = -Sign(position),
                         !.orderAmt = Abs(position), !.acts = @ + 1],
               "exit", "", failed)

\* mutant: the entry price is stored before the order call is awaited
EntryCallEager(L, dir, queue, ema, fee, entry, failed) ==
  Outcome(queue, ema, fee, L.currentPrice,
          [L EXCEPT !.pc = "order", !.orderDir = dir,
                    !.orderAmt = L.actualTradeSizeBase, !.acts = @ + 1],
          "entry", "", failed)

\* placeMarketOrder(direction, actualTradeSizeBase) up to its await
EntryCall(L, dir, queue, ema, fee, entry, failed) ==
  Outcome(queue, ema, fee, entry,
          [L EXCEPT !.pc = "order", !.orderDir = dir,
                    !.orderAmt = L.actualTradeSizeBase, !.acts = @ + 1],
          "entry", "", failed)

\* From the fee-cost estimate to the first trading call (or the return).
Trade(L, queue, ema, fee, entry, failed) ==
  LET d == Decide(L, Len(queue), entry, fee)
  IN IF d.act = "exit" THEN CloseCall(L, queue, ema, fee, entry, failed)
     ELSE IF d.act = "enter"
     THEN EntryCall(L, d.dir, queue, ema, fee, entry, failed)
     ELSE Outcome(queue, ema, fee, entry, Done(L), "none", "", failed)

\* mutant: the queue is never trimmed
PushPriceNoTrim(queue, currentPrice) == Append(queue, currentPrice)

\* priceQueue.push(currentPrice); shift() past MAX_QUEUE_LENGTH
PushPrice(queue, currentPrice) ==
  LET q == Append(queue, currentPrice)
  IN IF Len(q) > MAX_QUEUE_LENGTH THEN Tail(q) ELSE q

\* mutant: the sample is pushed before the account gate is looked at
BeginCyclePushFirst(tick, acct, price, lookupOk, minStep) ==
  LET L0 == [Parked("done") EXCEPT !.tick = tick]
      pushed == IF price = Null THEN priceQueue
                ELSE PushPrice(priceQueue, price)
      bad(n) == Outcome(pushed, lastEMA, takerFeePercentState,
                        currentEntryPrice, L0, "none", "", n)
  IN IF acct = Null THEN bad(1)
     ELSE IF acct <= 0 THEN bad(0)
     ELSE IF price = Null THEN bad(1)
     ELSE
       LET ema == calculateEMA(price, CALCULATION_PERIOD, lastEMA, pushed)
           sd == calculateStdDev(pushed, ema, CALCULATION_PERIOD)
           z == ZScoreOf(price, ema, sd, CALCULATION_PERIOD)
           f1 == IF lookupOk THEN 0 ELSE 1
           pos == IF lookupOk THEN position ELSE 0
       IN IF minStep = Null
          THEN Outcome(pushed, ema, takerFeePercentState, currentEntryPrice,
                       L0, "none", "", f1 + 1)
          ELSE
            The({IF takerFeePercentState = Null /\ L.zScore # NullZ
                 THEN Outcome(pushed, ema, takerFeePercentState,
                              currentEntryPrice, [L EXCEPT !.pc = "fee"],
                              "none", "", f1)
                 ELSE Trade(L, pushed, ema, takerFeePercentState,
                            currentEntryPrice, f1) :
                 L \in {[L0 EXCEPT
                           !.currentPrice = price, !.zScore = z,
                           !.positionSizeBase = pos,
                           !.totalCollateral = acct,
                           !.actualTradeSizeBase =
                              ActualTradeSizeBase(acct, price, minStep)]}})

\* runMeanReversionLogic from its first line to its first await.  Inputs:
\* total collateral (Null: no account state), oracle price (Null: none),
\* whether getOpenPositions answered, the market's order step (Null: no
\* market account).
BeginCycle(tick, acct, price, lookupOk, minStep) ==
  LET L0 == [Parked("done") EXCEPT !.tick = tick]
      bad(n) == Outcome(priceQueue, lastEMA, takerFeePercentState,
                        currentEntryPrice, L0, "none", "", n)
  IN IF acct = Null THEN bad(1)
     ELSE IF acct <= 0 THEN bad(0)
     ELSE IF price = Null THEN bad(1)
     ELSE
       LET queue == PushPrice(priceQueue, price)
           ema == calculateEMA(price, CALCULATION_PERIOD, lastEMA, queue)
           sd == calculateStdDev(queue, ema, CALCULATION_PERIOD)
           z == ZScoreOf(price, ema, sd, CALCULATION_PERIOD)
           f1 == IF lookupOk THEN 0 ELSE 1
           pos == IF lookupOk THEN position ELSE 0
       IN IF minStep = Null
          THEN Outcome(queue, ema, takerFeePercentState, currentEntryPrice,
                       L0, "none", "", f1 + 1)
          ELSE
            The({IF takerFeePercentState = Null /\ L.zScore # NullZ
                 THEN Outcome(queue, ema, takerFeePercentState,
                              currentEntryPrice, [L EXCEPT !.pc = "fee"],
                              "none", "", f1)
                 ELSE Trade(L, queue, ema, takerFeePercentState,
                            currentEntryPrice, f1) :
                 L \in {[L0 EXCEPT
                           !.currentPrice = price, !.zScore = z,
                           !.positionSizeBase = pos,
                           !.totalCollateral = acct,
                           !.actualTradeSizeBase =
                              ActualTradeSizeBase(acct, price, minStep)]}})

\* mutant: a fee fetch that threw falls back to a fee of zero
AfterFeeDefault(L, takerFee) ==
  Trade(L, priceQueue, lastEMA,
        IF takerFee = Null THEN 0 ELSE takerFee * 100,
        currentEntryPrice,
        IF takerFee = Null THEN 1 ELSE 0)

\* After await getMarketFees: takerFee (Null: the call threw).
AfterFee(L, takerFee) ==
  Trade(L, priceQueue, lastEMA,
        IF takerFee = Null THEN takerFeePercentState ELSE takerFee * 100,
        currentEntryPrice,
        IF takerFee = Null THEN 1 ELSE 0)

\* mutant: a close that threw is tried again within the same tick
AfterCloseRetry(L, ok) ==
  IF ok
  THEN Outcome(priceQueue, lastEMA, takerFeePercentState, Null,
               Done(L), "none", "Exit", 0)
  ELSE CloseCall(L, priceQueue, lastEMA, takerFeePercentState,
                 currentEntryPrice, 1)

\* mutant: the entry price is cleared whether or not the close went through
AfterCloseClearOnFail(L, ok) ==
  Outcome(priceQueue, lastEMA, takerFeePercentState, Null,
          Done(L), "none", IF ok THEN "Exit" ELSE "", IF ok THEN 0 ELSE 1)

\* After await closePosition: entry price cleared unless it threw.
AfterClose(L, ok) ==
  Outcome(priceQueue, lastEMA, takerFeePercentState,
          IF ok THEN Null ELSE currentEntryPrice,
          Done(L), "none", IF ok THEN "Exit" ELSE "", IF ok THEN 0 ELSE 1)

\* After await placeMarketOrder: entry price recorded, or cleared if it threw.
AfterOrder(L, ok) ==
  Outcome(priceQueue, lastEMA, takerFeePercentState,
          IF ok THEN L.currentPrice ELSE Null,
          Done(L), "none", IF ok THEN "Enter" ELSE "", IF ok THEN 0 ELSE 1)

\* What the guards and the exit / entry conditions were given and answered:
\* the tick's locals and the strategy state as the code reads them there.
Judged(base, L, queueLength, entry, fee) ==
  LET d == Decide(L, queueLength, entry, fee)
  IN [base EXCEPT !.stage = "decided", !.tick = L.tick,
                  !.currentPrice = L.currentPrice, !.zScore = L.zScore,
                  !.queueLength = queueLength,
                  !.positionSizeBase = L.positionSizeBase,
                  !.totalCollateral = L.totalCollateral,
                  !.actualTradeSizeBase = L.actualTradeSizeBase,
                  !.entry = entry, !.fee = fee, !.act = d.act, !.why = d.why]

\* ... and the arguments of the placeMarketOrder call of an entry, if the
\* stretch made one.
Ordered(log, out) ==
  IF out.kind = "entry"
  THEN [log EXCEPT !.orderDir = out.loc.orderDir,
                   !.orderAmt = out.loc.orderAmt]
  ELSE log

\* The log of the stretch from the first line to the first await: the gate
\* that returned, or the indicators and, when reached, the decision.
Seen(tick, acct, price, lookupOk, minStep, out) ==
  LET gate(what) == [NoCheck EXCEPT !.stage = "returned", !.missing = what,
                                    !.tick = tick]
  IN IF acct = Null THEN gate("account")
     ELSE IF acct <= 0 THEN gate("collateral")
     ELSE IF price = Null THEN gate("price")
     ELSE
       LET sd == calculateStdDev(out.queue, out.ema, CALCULATION_PERIOD)
           base == [NoCheck EXCEPT
                      !.tick = tick, !.currentPrice = price,
                      !.shifted = (Len(priceQueue) = MAX_QUEUE_LENGTH),
                      !.stdDev = sd,
                      !.zScore = ZScoreOf(price, out.ema, sd,
                                          CALCULATION_PERIOD),
                      !.queueLength = Len(out.queue),
                      !.positionSizeBase = IF lookupOk THEN position ELSE 0,
                      !.lookupFailed = ~lookupOk,
                      !.totalCollateral = acct]
       IN IF minStep = Null
          THEN [base EXCEPT !.stage = "returned", !.missing = "market"]
          ELSE IF out.loc.pc = "fee"
          THEN [base EXCEPT !.stage = "awaitFee", !.minStep = minStep,
                            !.actualTradeSizeBase =
                               out.loc.actualTradeSizeBase]
          ELSE Ordered(Judged([base EXCEPT !.minStep = minStep], out.loc,
                              Len(out.queue), currentEntryPrice, out.fee),
                       out)

\* The log of the stretch after await getMarketFees; the fee is missing
\* when the call threw and no other tick has stored one meanwhile.
SeenAfterFee(L, takerFee, out) ==
  Ordered(Judged([NoCheck EXCEPT
                    !.missing =
                       IF takerFee = Null /\ takerFeePercentState = Null
                       THEN "fee" ELSE ""],
                 L, Len(out.queue), currentEntryPrice, out.fee),
          out)

\* ------------------------------------------------------------ scheduler
\* The strategy-state writes of a stretch, its trading call and its result.
Record(out) ==
  /\ faults + out.failed <= MaxFaults
  /\ faults' = faults + out.failed
  /\ priceQueue' = out.queue
  /\ lastEMA' = out.ema
  /\ takerFeePercentState' = out.fee
  /\ currentEntryPrice' = out.entry
  /\ lastIssue' = IF out.kind = "none" THEN lastIssue
                  ELSE [kind |-> out.kind, pos |-> position,
                        tick |-> out.loc.tick, count |-> out.loc.acts]
  /\ actions' = IF out.success = "" THEN actions
                ELSE Append(actions, out.success)

\* Where chain c stands after a stretch of its tick: still inside the tick,
\* or (the cycle has returned) waiting on a newly armed timer, which becomes
\* loopTimeoutId, or ended.
Arm(c, out, armed, pending) ==
  IF out.loc.pc # "done"
  THEN /\ chain' = [chain EXCEPT ![c] = out.loc]
       /\ timers' = pending
       /\ loopTimeoutId' = loopTimeoutId
  ELSE IF armed
  THEN /\ chain' = [chain EXCEPT ![c] = Parked("timer")]
       /\ timers' = Append(pending, c)
       /\ loopTimeoutId' = c
  ELSE /\ chain' = [chain EXCEPT ![c] = Parked("ended")]
       /\ timers' = pending
       /\ loopTimeoutId' = loopTimeoutId

\* mutant: the next run is scheduled without looking at the flag
RescheduleAlways(c, out, running, pending) == Arm(c, out, TRUE, pending)

\* mutant: the next run is never scheduled
RescheduleNever(c, out, running, pending) == Arm(c, out, FALSE, pending)

\* mutant: a cycle that met a failure ends the loop (no catch in runLoop)
RescheduleUnlessFailed(c, out, running, pending) ==
  Arm(c, out, running /\ out.failed = 0, pending)

\* runLoop after `await runMeanReversionLogic`: when the cycle has returned
\* and the flag (as it is then) is set, arm the next timer.
Reschedule(c, out, running, pending) == Arm(c, out, running, pending)

\* runLoop entered (by start() or by its timer) with the flag set: one tick
\* begins and runs to its first await.
BeginTick(c, pending) ==
  /\ nTicks < MaxTicks
  /\ nTicks' = nTicks + 1
  /\ \E acct \in Collaterals \cup {Null}, price \in Prices \cup {Null},
        lookupOk \in BOOLEAN, minStep \in MinOrderSizes \cup {Null} :
       \E out \in {BeginCycle(nTicks + 1, acct, price, lookupOk, minStep)} :
         /\ Record(out)
         /\ Reschedule(c, out, TRUE, pending)
         /\ lastCheck' = Seen(nTicks + 1, acct, price, lookupOk, minStep, out)

\* mutant: start() without the already-running check
StartUnguarded ==
  /\ op' = "start"
  /\ nStarts < MaxStarts
  /\ isBotRunning' = TRUE
  /\ nStarts' = nStarts + 1
  /\ BeginTick(nStarts + 1, timers)
  /\ UNCHANGED <<envVars, externals>>

\* startTradingLoop
Start ==
  /\ op' = "start"
  /\ IF isBotRunning
     THEN /\ lastCheck' = NoCheck
          /\ UNCHANGED <<stratVars, schedVars, envVars, nTicks, nStarts,
                         faults, externals, lastIssue, actions>>
     ELSE /\ nStarts < MaxStarts
          /\ isBotRunning' = TRUE
          /\ nStarts' = nStarts + 1
          /\ BeginTick(nStarts + 1, timers)
          /\ UNCHANGED <<envVars, externals>>

\* clearTimeout(id)
ClearTimeout(id, pending) == SelectSeq(pending, LAMBDA t : t # id)

\* mutant: the reset leaves the price queue as it is
resetKeepsQueue ==
  /\ priceQueue' = priceQueue
  /\ takerFeePercentState' = Null
  /\ currentEntryPrice' = Null
  /\ lastEMA' = NullEMA

\* mutant: the reset of the revision without an EMA state
resetWithoutEMA ==
  /\ priceQueue' = <<>>
  /\ takerFeePercentState' = Null
  /\ currentEntryPrice' = Null
  /\ lastEMA' = lastEMA

\* resetMeanReversionState
resetMeanReversionState ==
  /\ priceQueue' = <<>>
  /\ takerFeePercentState' = Null
  /\ currentEntryPrice' = Null
  /\ lastEMA' = NullEMA

\* mutant: stop() without the not-running check
StopUnguarded ==
  /\ op' = "stop"
  /\ lastCheck' = NoCheck
  /\ isBotRunning' = FALSE
  /\ timers' = ClearTimeout(loopTimeoutId, timers)
  /\ chain' = [c \in Chains |->
                 IF c = loopTimeoutId /\ chain[c].pc = "timer"
                 THEN Parked("ended") ELSE chain[c]]
  /\ loopTimeoutId' = 0
  /\ resetMeanReversionState
  /\ UNCHANGED <<envVars, nTicks, nStarts, faults, externals,
                 lastIssue, actions>>

\* stopTradingLoop
Stop ==
  /\ op' = "stop"
  /\ lastCheck' = NoCheck
  /\ IF ~isBotRunning
     THEN UNCHANGED <<stratVars, schedVars, envVars, nTicks, nStarts, faults,
                      externals, lastIssue, actions>>
     ELSE /\ isBotRunning' = FALSE
          /\ timers' = ClearTimeout(loopTimeoutId, timers)
          /\ chain' = [c \in Chains |->
                         IF c = loopTimeoutId /\ chain[c].pc = "timer"
                         THEN Parked("ended") ELSE chain[c]]
          /\ loopTimeoutId' = 0
          /\ resetMeanReversionState
          /\ UNCHANGED <<envVars, nTicks, nStarts, faults, externals,
                         lastIssue, actions>>

\* The oldest pending timer fires and calls runLoop.
TimerFire ==
  /\ timers # <<>>
  /\ op' = "timer"
  /\ IF isBotRunning
     THEN BeginTick(Head(timers), Tail(timers))
     ELSE /\ chain' = [chain EXCEPT ![Head(timers)] = Parked("ended")]
          /\ timers' = Tail(timers)
          /\ lastCheck' = NoCheck
          /\ UNCHANGED <<stratVars, loopTimeoutId, nTicks, faults,
                         lastIssue, actions>>
  /\ UNCHANGED <<isBotRunning, envVars, nStarts, externals>>

\* getMarketFees resolves or throws for the tick of chain c.
ResumeFee(c) ==
  /\ chain[c].pc = "fee"
  /\ op' = "fee"
  /\ \E takerFee \in TakerFees \cup {Null} :
       \E out \in {AfterFee(chain[c], takerFee)} :
         /\ Record(out)
         /\ Reschedule(c, out, isBotRunning, timers)
         /\ lastCheck' = SeenAfterFee(chain[c], takerFee, out)
  /\ UNCHANGED <<isBotRunning, envVars, nTicks, nStarts, externals>>

Order(L, reduceOnly) ==
  [dir |-> L.orderDir, amount |-> L.orderAmt, reduceOnly |-> reduceOnly]

\* The reduce-only order of closePosition is accepted, or the call throws.
ResumeClose(c) ==
  /\ chain[c].pc = "close"
  /\ op' = "close"
  /\ lastCheck' = NoCheck
  /\ \E ok \in BOOLEAN :
       \E out \in {AfterClose(chain[c], ok)} :
         /\ Record(out)
         /\ Reschedule(c, out, isBotRunning, timers)
         /\ pendingOrders' = IF ok
                             THEN Append(pendingOrders, Order(chain[c], TRUE))
                             ELSE pendingOrders
  /\ UNCHANGED <<isBotRunning, position, nTicks, nStarts, externals>>

\* The entry order of placeMarketOrder is accepted, or the call throws.
ResumeOrder(c) ==
  /\ chain[c].pc = "order"
  /\ op' = "order"
  /\ lastCheck' = NoCheck
  /\ \E ok \in BOOLEAN :
       \E out \in {AfterOrder(chain[c], ok)} :
         /\ Record(out)
         /\ Reschedule(c, out, isBotRunning, timers)
         /\ pendingOrders' = IF ok
                             THEN Append(pendingOrders, Order(chain[c], FALSE))
                             ELSE pendingOrders
  /\ UNCHANGED <<isBotRunning, position, nTicks, nStarts, externals>>

Resume == \E c \in Chains : ResumeFee(c) \/ ResumeClose(c) \/ ResumeOrder(c)

\* ---------------------------------------------------------- the exchange
\* Effect of an accepted order on the position; a reduce-only order only
\* shrinks a position of the opposite sign, never past zero.
Filled(pos, o) ==
  IF ~o.reduceOnly THEN pos + o.dir * o.amount
  ELSE IF Sign(pos) = -o.dir
  THEN pos + o.dir * (IF o.amount < Abs(pos) THEN o.amount ELSE Abs(pos))
  ELSE pos

\* The oldest accepted order is filled.
Fill ==
  /\ pendingOrders # <<>>
  /\ op' = "fill"
  /\ lastCheck' = NoCheck
  /\ position' = Filled(position, Head(pendingOrders))
  /\ pendingOrders' = Tail(pendingOrders)
  /\ UNCHANGED <<stratVars, schedVars, nTicks, nStarts, faults, externals,
                 lastIssue, actions>>

\* The position is closed by something other than the bot (liquidation, the
\* account's owner).
ExternalClose ==
  /\ position # 0
  /\ externals < MaxExternal
  /\ op' = "external"
  /\ lastCheck' = NoCheck
  /\ position' = 0
  /\ externals' = externals + 1
  /\ UNCHANGED <<stratVars, schedVars, pendingOrders, nTicks, nStarts, faults,
                 lastIssue, actions>>

Next == Start \/ Stop \/ TimerFire \/ Resume \/ Fill \/ ExternalClose

Spec == Init /\ [][Next]_vars

\* The scheduling the event loop guarantees: a pending timer fires.  That a
\* tick's external calls return is not guaranteed by the code.
FairSpec == Spec /\ WF_vars(TimerFire)

\* ------------------------------------------- the decision on its own
\* The guards and the exit / entry conditions as a function of the values
\* they read, applied once to every combination of the sets below.
DecidePrices == 90 .. 110

DecideEntries == {Null, 100}

DecidePositions == {-100, 0, 100}

DecideFees == {Null, 1000, 5000}

DecideQueueLengths == {CALCULATION_PERIOD - 1, CALCULATION_PERIOD}

DecideCollaterals == {40, 400}

DecideMinSteps == {10, 200}

\* none, -1, -0.5, -0.4, -0.3, -0.2, 0, 0.2, 0.3, 0.4, 0.5, 1
DecideZScores ==
  {NullZ} \cup {[sgn |-> sg, num |-> n, den |-> 100] :
                  sg \in {-1, 1}, n \in {4, 9, 16, 25, 100}}
          \cup {[sgn |-> 0, num |-> 0, den |-> 100]}

DecideStep ==
  /\ op = "init"
  /\ op' = "decide"
  /\ \E price \in DecidePrices, z \in DecideZScores,
        pos \in DecidePositions, entry \in DecideEntries,
        fee \in DecideFees, n \in DecideQueueLengths,
        acct \in DecideCollaterals, minStep \in DecideMinSteps :
       \E L \in {[Parked("done") EXCEPT
                     !.currentPrice = price, !.zScore = z,
                     !.positionSizeBase = pos, !.totalCollateral = acct,
                     !.actualTradeSizeBase =
                        ActualTradeSizeBase(acct, price, minStep)]} :
         lastCheck' =
           Ordered(Judged([NoCheck EXCEPT !.minStep = minStep],
                          L, n, entry, fee),
                   Trade(L, [i \in 1..n |-> price], NullEMA, fee, entry, 0))
  /\ UNCHANGED <<stratVars, schedVars, envVars, nTicks, nStarts, faults,
                 externals, lastIssue, actions>>

DecideNext == DecideStep

DecideSpec == Init /\ [][DecideNext]_vars

\* ------------------------------------------------------------ properties
\* runLoop closures that will run again: inside a tick or waiting on a timer
LiveChains == {c \in Chains : chain[c].pc \in {"fee", "close", "order", "timer"}}

\* C1: at most one tick is in flight and at most one chain of rescheduling
\* timers exists, whatever the interleaving of start, stop, timers and
\* external-call completions.
C1_SingleTickSingleChain ==
  /\ Cardinality(TicksInFlight) <= 1
  /\ Cardinality(LiveChains) <= 1

\* C2: an entry order is issued only while the market position is 0, and a
\* close is attempted only while it is not 0.
C2_IssueMatchesPosition ==
  /\ lastIssue.kind = "entry" => lastIssue.pos = 0
  /\ lastIssue.kind = "exit" => lastIssue.pos # 0

\* C3: successful Enter and Exit actions strictly alternate, starting with
\* Enter.
C3_EnterExitAlternate ==
  \A i \in 1..Len(actions) :
    actions[i] = IF i % 2 = 1 THEN "Enter" ELSE "Exit"

\* C4: a tick makes at most one trading call (placeMarketOrder for an entry
\* or closePosition), never both and never two of either.
C4_AtMostOneTradingCall ==
  /\ \A c \in Chains : chain[c].acts <= 1
  /\ lastIssue.count <= 1

\* C4 witness: a tick has made its trading call and has returned.
C4_Witness ==
  /\ lastIssue.kind = "exit"
  /\ lastIssue.count = 1
  /\ \A c \in Chains : chain[c].tick # lastIssue.tick

\* C5: a stop() made while a tick is in flight leaves the strategy state as
\* it is.
C5_StopKeepsStateWhileTickInFlight ==
  [][(op' = "stop" /\ isBotRunning /\ TicksInFlight # {})
       => UNCHANGED stratVars]_vars

\* C6: once stop() has been called, and until start() is called, the ticks
\* in flight are left to run (stop does not touch them), their completion
\* arms no timer, and no tick begins.
C6_StopLetsTickFinishAndSchedulesNothing ==
  [][(~isBotRunning' /\ op' # "start") =>
       /\ nTicks' = nTicks
       /\ \A c \in Chains : chain'[c].pc = "timer" => chain[c].pc = "timer"
       /\ op' = "stop" => \A c \in TicksInFlight : chain'[c] = chain[c]]_vars

\* C6 witness: the scheduler is stopped and an external call has just
\* returned into the last tick in flight, which has ended its chain.
C6_Witness ==
  /\ ~isBotRunning
  /\ op \in {"fee", "close", "order"}
  /\ TicksInFlight = {}
  /\ timers = <<>>

\* C7: stop() between ticks cancels the pending timer and clears the run
\* flag at once, and no tick begins while the flag is clear.
C7_StopBetweenTicksCancelsTimer ==
  [][/\ (op' = "stop" /\ isBotRunning /\ TicksInFlight = {})
          => (timers' = <<>> /\ ~isBotRunning')
     /\ (~isBotRunning /\ op' # "start") => nTicks' = nTicks]_vars

\* C8: after a stop(), whenever the scheduler is idle with no tick in flight,
\* the strategy state is the reset state.
C8_IdleStateIsReset ==
  (nStarts > 0 /\ ~isBotRunning /\ TicksInFlight = {}) =>
    /\ priceQueue = <<>>
    /\ takerFeePercentState = Null
    /\ currentEntryPrice = Null
    /\ lastEMA = NullEMA

\* C9: start() while Running changes nothing; start() while not Running
\* sets the flag and begins the first tick in the same step.
C9_StartNoOpOrImmediateTick ==
  [][op' = "start" =>
       IF isBotRunning
       THEN UNCHANGED <<stratVars, schedVars, envVars, nTicks, nStarts,
                        lastIssue, actions>>
       ELSE /\ isBotRunning'
            /\ nTicks' = nTicks + 1
            /\ nStarts' = nStarts + 1
            /\ chain'[nStarts'].pc # "unused"]_vars

\* C9 witness: start() was called while a tick was in flight; the flag is
\* set and nothing else runs.
C9_Witness ==
  /\ op = "start"
  /\ isBotRunning
  /\ Cardinality(TicksInFlight) = 1
  /\ nTicks > nStarts

\* C10: while the flag stays set, a completed tick is followed by the start
\* of another tick: the scheduler never rests for ever running, between
\* ticks, with ticks of the model's budget left.
C10_TicksRepeat ==
  []<>~(isBotRunning /\ TicksInFlight = {} /\ nTicks < MaxTicks)

\* C10 witness: a tick begun by the timer armed after the previous tick.
C10_Witness ==
  /\ op = "timer"
  /\ isBotRunning
  /\ nStarts = 1
  /\ nTicks >= 3

\* the steps made by a stretch of a tick
TickOps == {"start", "timer", "fee", "close", "order"}

\* C11: a failure met inside a tick (a data fetch that returns nothing, a
\* fee, close or order call that throws) leaves the run flag as it is, and a
\* tick that returns, failed or not, leaves its chain waiting on the newly
\* armed timer exactly when the flag is set.
C11_FailedTickKeepsScheduler ==
  [][(op' \in TickOps) =>
       /\ isBotRunning' = (isBotRunning \/ op' = "start")
       /\ \A c \in Chains :
            (chain'[c] # chain[c] /\ chain'[c].pc \in {"timer", "ended"}) =>
              IF isBotRunning'
              THEN /\ chain'[c].pc = "timer"
                   /\ timers' # <<>>
                   /\ timers'[Len(timers')] = c
                   /\ loopTimeoutId' = c
              ELSE chain'[c].pc = "ended"]_vars

\* C11 witness: a tick whose close or order call threw has returned, the
\* flag is set and the next timer of its chain is pending.
C11_Witness ==
  /\ op \in {"close", "order"}
  /\ faults > 0
  /\ actions = <<>>
  /\ isBotRunning
  /\ loopTimeoutId # 0
  /\ chain[loopTimeoutId].pc = "timer"

\* C12: a tick stretch in which the account state, a positive collateral,
\* the price, the market account (step size) or the taker fee was not
\* available makes no trading call and leaves the entry price as it was.
C12_UnavailableDataNoOrder ==
  [][(lastCheck'.missing # "") =>
       /\ lastIssue' = lastIssue
       /\ pendingOrders' = pendingOrders
       /\ currentEntryPrice' = currentEntryPrice
       /\ lastCheck'.act = "none"
       /\ \A c \in Chains : chain'[c].pc \notin {"close", "order"}
                              \/ chain'[c] = chain[c]]_vars

\* C12 witness: the fee fetch threw in a tick that had a z-score beyond the
\* entry threshold and no position.
C12_Witness ==
  /\ lastCheck.missing = "fee"
  /\ lastCheck.why = "noFee"
  /\ lastCheck.positionSizeBase = 0
  /\ AbsZAbove(lastCheck.zScore, Z_SCORE_ENTRY_THRESHOLD)

\* C13: while the queue holds fewer than CALCULATION_PERIOD samples (fewer
\* were observed since the last reset), the stored EMA is null, a tick
\* computes no EMA, deviation or z-score, does not go on to the fee fetch and
\* makes no trading call, whatever position it reads.
C13_ShortWindowNoIndicatorsNoOrder ==
  /\ Len(priceQueue) < CALCULATION_PERIOD => lastEMA = NullEMA
  /\ (lastCheck.currentPrice # 0
       /\ lastCheck.queueLength < CALCULATION_PERIOD) =>
         /\ lastCheck.act = "none"
         /\ lastCheck.stage # "awaitFee"
         /\ lastIssue.tick # lastCheck.tick
         /\ op \in {"start", "timer"} =>
              lastCheck.stdDev = Null /\ lastCheck.zScore = NullZ

\* C13 witness: the first tick after a restart, with a position held over
\* from the previous run.
C13_Witness ==
  /\ op \in {"start", "timer"}
  /\ lastCheck.stage = "decided"
  /\ lastCheck.queueLength < CALCULATION_PERIOD
  /\ lastCheck.positionSizeBase # 0

C15_WindowBoundedFifo ==
  [][/\ Len(priceQueue') <= MAX_QUEUE_LENGTH
     /\ (op' \in {"start", "timer"} /\ lastCheck'.currentPrice # 0) =>
          priceQueue' =
            IF Len(priceQueue) < MAX_QUEUE_LENGTH
            THEN priceQueue \o <<lastCheck'.currentPrice>>
            ELSE SubSeq(priceQueue, 2, Len(priceQueue))
                 \o <<lastCheck'.currentPrice>>]_vars

\* C15 witness: a tick has pushed a price onto a full queue.
C15_Witness ==
  /\ lastCheck.shifted
  /\ Len(priceQueue) = MAX_QUEUE_LENGTH
  /\ priceQueue[MAX_QUEUE_LENGTH] = lastCheck.currentPrice

\* C16: the strategy state starts as that of a fresh engine and every reset
\* (the one stop() makes) puts it back there, from whatever state, a fresh
\* one included: queue, fee, entry price and EMA, all the state a tick reads.
C16_ResetGivesFreshEngine ==
  /\ stratVars = FreshEngine
  /\ [][(op' = "stop" /\ isBotRunning) => stratVars' = FreshEngine]_vars

\* C16 witness: stop() after an entry was recorded (queue, fee, entry price
\* and EMA were all set) and with no tick in flight.
C16_Witness ==
  /\ op = "stop"
  /\ ~isBotRunning
  /\ actions = <<"Enter">>
  /\ TicksInFlight = {}
  /\ stratVars = FreshEngine

\* The exit conditions can be evaluated: a decision on a window of at least
\* CALCULATION_PERIOD samples with a z-score, for a position whose entry
\* price and fee are known.
Evaluable ==
  /\ lastCheck.stage = "decided"
  /\ lastCheck.queueLength >= CALCULATION_PERIOD
  /\ lastCheck.zScore # NullZ
  /\ lastCheck.positionSizeBase # 0
  /\ lastCheck.entry # Null
  /\ lastCheck.fee # Null

\* profit of the position at the current price, in cents
Profit ==
  Abs(lastCheck.positionSizeBase)
    * (IF lastCheck.positionSizeBase > 0
       THEN lastCheck.currentPrice - lastCheck.entry
       ELSE lastCheck.entry - lastCheck.currentPrice)

InitialValue == Abs(lastCheck.positionSizeBase) * lastCheck.entry

\* C17: for a long position with known entry price and fee and a defined
\* z-score, a loss (entry - price) * size of at least initialValue *
\* MAX_LOSS_PERCENTAGE makes the tick call closePosition from the stop-loss
\* branch, which comes before the take-profit branches.
C17_StopLossFirst ==
  (/\ Evaluable
   /\ lastCheck.positionSizeBase > 0
   /\ 100 * (-Profit) >= InitialValue * MAX_LOSS_PERCENTAGE) =>
     lastCheck.act = "exit" /\ lastCheck.why = "stopLoss"

\* C17 witness: long at 100, price 94, z-score on the reverted side.
C17_Witness ==
  /\ Evaluable
  /\ lastCheck.positionSizeBase > 0
  /\ lastCheck.entry = 100
  /\ lastCheck.currentPrice = 94
  /\ lastCheck.zScore.sgn > 0
  /\ lastCheck.why = "stopLoss"

ProfitTarget ==
  2 * (lastCheck.totalCollateral * LEVERAGE_FACTOR * PORTFOLIO_RISK_PER_TRADE)
    * lastCheck.fee
  + 10000 * InitialValue * MINIMUM_PROFIT_PERCENTAGE

Reverted ==
  IF lastCheck.positionSizeBase > 0
  THEN ~ZBelowNeg(lastCheck.zScore, Z_SCORE_EXIT_THRESHOLD)
  ELSE ~ZAbove(lastCheck.zScore, Z_SCORE_EXIT_THRESHOLD)

\* C19: for a position on which neither the stop-loss nor the percentage
\* take-profit branch fired, the tick calls closePosition if and only if the
\* z-score is on the reverted side of the exit threshold and the profit is
\* strictly above round-trip fee cost + initialValue * minimum profit;
\* otherwise it makes no call.
C19_SignalTakeProfit ==
  (Evaluable /\ lastCheck.why \notin {"stopLoss", "percentTakeProfit"}) =>
     /\ lastCheck.act = "exit" <=>
           (Reverted /\ 1000000 * Profit > ProfitTarget)
     /\ lastCheck.act \in {"exit", "none"}

\* C19 witness: a reverted z-score with a profit exactly at the target
\* (2 on a size of 1.00 at 100, fee 0.5%, collateral 400): no exit.
C19_Witness ==
  /\ Evaluable
  /\ Reverted
  /\ 1000000 * Profit = ProfitTarget
  /\ lastCheck.why = "holdPosition"

\* C20: with a non-zero position size and the entry price or the taker fee
\* unknown, the tick makes no trading call: neither closePosition nor, by
\* falling through, an entry order.
C20_IndeterminateNoOrder ==
  (/\ lastCheck.stage = "decided"
   /\ lastCheck.positionSizeBase # 0
   /\ (lastCheck.entry = Null \/ lastCheck.fee = Null)) =>
     lastCheck.act = "none"

\* C20 witness: a position without entry price, fee known, and a z-score
\* beyond the entry threshold.
C20_Witness ==
  /\ lastCheck.why = "indeterminate"
  /\ lastCheck.entry = Null
  /\ lastCheck.fee # Null
  /\ AbsZAbove(lastCheck.zScore, Z_SCORE_ENTRY_THRESHOLD)

\* A decision for a flat account: the window holds at least
\* CALCULATION_PERIOD samples, the z-score is defined and the fee is known.
FlatReady ==
  /\ lastCheck.stage = "decided"
  /\ lastCheck.queueLength >= CALCULATION_PERIOD
  /\ lastCheck.zScore # NullZ
  /\ lastCheck.positionSizeBase = 0
  /\ lastCheck.fee # Null

\* z^2 > (entry threshold)^2, on the exact fraction
BeyondEntryThreshold ==
  lastCheck.zScore.num * 100
    > Z_SCORE_ENTRY_THRESHOLD * Z_SCORE_ENTRY_THRESHOLD * lastCheck.zScore.den

\* C21: with no position, a defined z-score and a known fee, a z-score
\* below minus the entry threshold places a long order of the trade size,
\* one above the entry threshold places a short order of the trade size,
\* and one within the thresholds (the thresholds themselves included)
\* places no order; the size of every entry order is at least the
\* market's minimum step.
C21_EntryRules ==
  FlatReady =>
    /\ (lastCheck.zScore.sgn < 0 /\ BeyondEntryThreshold) =>
          /\ lastCheck.act = "enter"
          /\ lastCheck.orderDir = 1
          /\ lastCheck.orderAmt = lastCheck.actualTradeSizeBase
    /\ (lastCheck.zScore.sgn > 0 /\ BeyondEntryThreshold) =>
          /\ lastCheck.act = "enter"
          /\ lastCheck.orderDir = -1
          /\ lastCheck.orderAmt = lastCheck.actualTradeSizeBase
    /\ ~BeyondEntryThreshold =>
          /\ lastCheck.act = "none"
          /\ lastCheck.orderDir = 0
    /\ lastCheck.orderDir # 0 => lastCheck.orderAmt >= lastCheck.minStep

\* C21 witness: a long entry whose size was raised to the minimum step.
C21_Witness ==
  /\ FlatReady
  /\ lastCheck.zScore.sgn < 0
  /\ BeyondEntryThreshold
  /\ lastCheck.orderDir = 1
  /\ lastCheck.orderAmt = lastCheck.minStep
  /\ lastCheck.minStep > (lastCheck.totalCollateral * LEVERAGE_FACTOR
                            * PORTFOLIO_RISK_PER_TRADE)
                           \div lastCheck.currentPrice

\* C22: the entry price is written only when the entry order call has
\* resolved: no other step gives it a new value; when the call succeeded
\* it is the price that tick sampled, when the call threw it is unset.
C22_EntryPriceAfterOrder ==
  [][/\ (currentEntryPrice' # currentEntryPrice /\ currentEntryPrice' # Null)
          => (op' = "order" /\ faults' = faults)
     /\ \A c \in Chains :
          (chain[c].pc = "order" /\ chain'[c].pc # "order") =>
             currentEntryPrice' = IF faults' = faults
                                  THEN chain[c].currentPrice
                                  ELSE Null]_vars

\* C22 witness: an entry order has just been accepted and the entry price
\* is the last price sampled.
C22_Witness ==
  /\ op = "order"
  /\ actions # <<>>
  /\ actions[Len(actions)] = "Enter"
  /\ currentEntryPrice # Null
  /\ priceQueue # <<>>
  /\ currentEntryPrice = priceQueue[Len(priceQueue)]

C24_FlatMeansNoEntryPrice ==
  (TicksInFlight = {} /\ pendingOrders = <<>> /\ position = 0)
    => currentEntryPrice = Null

\* C25: the taker fee is fetched successfully at most once per run: a
\* getMarketFees call is started only while the cache is unset, a call that
\* succeeds finds the cache still unset, a set cache keeps its value until
\* the reset of stop, and a call that throws leaves the cache as it was.
C25_FeeFetchedOnce ==
  [][/\ \A c \in Chains :
          /\ (chain[c].pc # "fee" /\ chain'[c].pc = "fee")
               => takerFeePercentState' = Null
          /\ (chain[c].pc = "fee" /\ chain'[c].pc # "fee") =>
               IF faults' > faults
               THEN takerFeePercentState' = takerFeePercentState
               ELSE takerFeePercentState = Null
     /\ takerFeePercentState # Null =>
          (takerFeePercentState' = takerFeePercentState \/ op' = "stop")]_vars

\* A tick stretch that computed the trade size.
Sized == lastCheck.minStep > 0

\* buyingPower * PORTFOLIO_RISK_PER_TRADE of the logged tick, in cents
DesiredValue ==
  lastCheck.totalCollateral * LEVERAGE_FACTOR * PORTFOLIO_RISK_PER_TRADE

\* C26: for positive collateral, price and minimum step the trade size is
\* the larger of the minimum step and the desired size (collateral *
\* leverage * risk / price) cut down to hundredths: it is never below the
\* minimum step, the next hundredth above it is more than the desired
\* size, and when it is above the minimum step it is not more than the
\* desired size.
C26_TradeSize ==
  Sized =>
    /\ lastCheck.actualTradeSizeBase >= lastCheck.minStep
    /\ (lastCheck.actualTradeSizeBase + 1) * lastCheck.currentPrice
         > DesiredValue
    /\ lastCheck.actualTradeSizeBase > lastCheck.minStep =>
         lastCheck.actualTradeSizeBase * lastCheck.currentPrice
           <= DesiredValue

\* C26 witness: a size above the minimum step that had to be cut down.
C26_Witness ==
  /\ Sized
  /\ lastCheck.totalCollateral > 0
  /\ lastCheck.actualTradeSizeBase > lastCheck.minStep
  /\ lastCheck.actualTradeSizeBase * lastCheck.currentPrice < DesiredValue

IndicatorStep ==
  /\ nTicks' > nTicks
  /\ lastCheck'.currentPrice > 0
  /\ Len(priceQueue') >= CALCULATION_PERIOD

\* sum of the most recent CALCULATION_PERIOD samples after the push
WindowSum == SumSeq(LastN(priceQueue', CALCULATION_PERIOD))

\* EMA' = price * a + EMA * (1 - a) with a = 2 / (period + 1), on the
\* fractions <<n, d>>
Smoothed ==
  lastEMA'[1] * (CALCULATION_PERIOD + 1) * lastEMA[2]
    = lastEMA'[2] * (2 * lastCheck'.currentPrice * lastEMA[2]
                       + (CALCULATION_PERIOD - 1) * lastEMA[1])

\* C28 as stated: on a tick with a full window and no prior EMA the EMA is
\* the simple average of the most recent CALCULATION_PERIOD samples; on a
\* tick with a prior EMA it is price * a + EMA * (1 - a).
C28_SeededWithAverage ==
  [][IndicatorStep =>
       /\ lastEMA'[2] # 0
       /\ IF lastEMA = NullEMA
          THEN lastEMA'[1] * CALCULATION_PERIOD = lastEMA'[2] * WindowSum
          ELSE Smoothed]_vars

\* C28 (amended): on a tick with a full window and no prior EMA the EMA is
\* price * a + SMA * (1 - a), the simple average SMA of the most recent
\* CALCULATION_PERIOD samples (the price just sampled among them) standing
\* in for the prior EMA; on a tick with a prior EMA it is
\* price * a + EMA * (1 - a), a = 2 / (period + 1).
C28_SeedSmoothedFromAverage ==
  [][IndicatorStep =>
       /\ lastEMA'[2] # 0
       /\ IF lastEMA = NullEMA
          THEN lastEMA'[1] * CALCULATION_PERIOD * (CALCULATION_PERIOD + 1)
                 = lastEMA'[2]
                     * (2 * lastCheck'.currentPrice * CALCULATION_PERIOD
                          + (CALCULATION_PERIOD - 1) * WindowSum)
          ELSE Smoothed]_vars

\* C28 witness: the tick after a seeding tick, on prices that differ, the
\* EMA off the simple average of the window.
C28_Witness ==
  /\ op \in {"start", "timer"}
  /\ lastCheck.currentPrice > 0
  /\ Len(priceQueue) = CALCULATION_PERIOD + 1
  /\ priceQueue[1] # priceQueue[2]
  /\ priceQueue[2] # priceQueue[3]
  /\ lastEMA # NullEMA
  /\ lastEMA[1] * CALCULATION_PERIOD
       # lastEMA[2] * SumSeq(LastN(priceQueue, CALCULATION_PERIOD))

\* C29: the stop-loss exit is unconditional: a tick that reaches its
\* decision with an open position and a recorded entry price, the loss at
\* least initialValue * MAX_LOSS_PERCENTAGE, calls closePosition, also when
\* the z-score is undefined or the taker fee is not known.
C29_StopLossUnconditional ==
  (/\ lastCheck.stage = "decided"
   /\ lastCheck.positionSizeBase # 0
   /\ lastCheck.entry # Null
   /\ 100 * (-Profit) >= InitialValue * MAX_LOSS_PERCENTAGE)
    => lastCheck.act = "exit"

\* C29 (amended): the stop-loss comes before the other exit checks but
\* behind the guards: a tick that reaches its decision with an open
\* position and a recorded entry price, the loss at least initialValue *
\* MAX_LOSS_PERCENTAGE, calls closePosition exactly when the window holds
\* CALCULATION_PERIOD samples, the z-score is defined and the taker fee is
\* known; otherwise it holds the position and makes no trading call.
C29_StopLossBehindGuards ==
  (/\ lastCheck.stage = "decided"
   /\ lastCheck.positionSizeBase # 0
   /\ lastCheck.entry # Null
   /\ 100 * (-Profit) >= InitialValue * MAX_LOSS_PERCENTAGE)
    => /\ lastCheck.act \in {"exit", "none"}
       /\ lastCheck.act = "exit" <=> Evaluable
       /\ lastCheck.orderDir = 0

\* C29 witness: a tick of a run calls closePosition on a long position
\* whose loss has reached the limit.
C29_Witness ==
  /\ op \in TickOps
  /\ Evaluable
  /\ lastCheck.tick >= 4
  /\ lastCheck.positionSizeBase > 0
  /\ 100 * (-Profit) >= InitialValue * MAX_LOSS_PERCENTAGE
  /\ lastCheck.act = "exit"
  /\ lastIssue.kind = "exit"

\* C30: an entry order is never issued while the taker fee is unknown: in
\* every step in which a tick calls placeMarketOrder for an entry, the fee
\* cache holds a value when the call is made.
C30_EntryKnowsFee ==
  [][(\E c \in Chains : chain[c].pc # "order" /\ chain'[c].pc = "order")
       => (/\ takerFeePercentState' # Null
           /\ lastIssue'.kind = "entry"
           /\ lastCheck'.fee # Null)]_vars

\* C30 witness: an entry order has been issued, in the stretch that
\* followed the fee fetch of the same tick.
C30_Witness ==
  /\ op = "fee"
  /\ \E c \in Chains : chain[c].pc = "order"
  /\ lastIssue.kind = "entry"
  /\ lastCheck.act = "enter"
  /\ takerFeePercentState # Null

\* C31: for a short position with known entry price and fee and a defined
\* z-score, the stop-loss branch is taken only when the price is above the
\* entry price by at least MAX_LOSS_PERCENTAGE of it, and the percentage
\* take-profit branch only when the price is below the entry price by at
\* least TAKE_PROFIT_PERCENTAGE of it.
C31_ShortExitsFollowOutcome ==
  (Evaluable /\ lastCheck.positionSizeBase < 0) =>
    /\ lastCheck.why = "stopLoss" =>
         100 * (lastCheck.currentPrice - lastCheck.entry)
           >= lastCheck.entry * MAX_LOSS_PERCENTAGE
    /\ lastCheck.why = "percentTakeProfit" =>
         100 * (lastCheck.entry - lastCheck.currentPrice)
           >= lastCheck.entry * TAKE_PROFIT_PERCENTAGE

\* C32: the z-score take-profit branch calls closePosition only for a
\* position that is in profit: a long with the price above the entry
\* price, a short with the price below it, the gain in both cases above
\* round-trip fee cost + initialValue * minimum profit.
C32_SignalExitOnlyInProfit ==
  (Evaluable /\ lastCheck.why = "zScoreTakeProfit") =>
    /\ lastCheck.act = "exit"
    /\ lastCheck.positionSizeBase > 0
         => lastCheck.currentPrice > lastCheck.entry
    /\ lastCheck.positionSizeBase < 0
         => lastCheck.currentPrice < lastCheck.entry
    /\ 1000000 * Abs(lastCheck.positionSizeBase)
         * Abs(lastCheck.currentPrice - lastCheck.entry) > ProfitTarget

\* C32 witness: a short that has gained less than the percentage limits
\* leaves through the z-score branch.
C32_Witness ==
  /\ Evaluable
  /\ lastCheck.positionSizeBase < 0
  /\ lastCheck.why = "zScoreTakeProfit"
  /\ lastCheck.currentPrice < lastCheck.entry

\* C33: the notional value of every entry order, its size times the
\* current price, is at most maxAllowedCapital = totalCollateral *
\* MAX_PORTFOLIO_ALLOCATION.
C33_EntryWithinAllocation ==
  (lastCheck.stage = "decided" /\ lastCheck.orderDir # 0) =>
    lastCheck.orderAmt * lastCheck.currentPrice
      <= lastCheck.totalCollateral * MAX_PORTFOLIO_ALLOCATION

\* C34: a non-zero position with no entry price stored is absorbing: as
\* long as the position stays non-zero, no step issues a trading call and
\* the entry price stays unset.
C34_UnknownEntryAbsorbing ==
  [][(position # 0 /\ currentEntryPrice = Null /\ position' # 0)
       => (currentEntryPrice' = Null /\ lastIssue' = lastIssue)]_vars

\* C35: a tick whose open-positions lookup failed (getOpenPositions
\* returned null) does not take the market for flat: it places no entry
\* order.
C35_FailedLookupNoEntry ==
  lastCheck.lookupFailed =>
    (lastCheck.orderDir = 0 /\ lastCheck.act # "enter")

\* C36: whenever the run flag is clear (isLoopRunning() = false), no tick
\* is in flight and no timer is pending.
C36_IdleMeansNoActivity ==
  ~isBotRunning => (TicksInFlight = {} /\ timers = <<>>)

\* C37: stop() while the run flag is clear does nothing: the flag, the
\* timers and the timer handle, the chains and the strategy state (queue,
\* EMA, fee cache, entry price) stay as they are; there is no reset.
C37_StopWhenIdleIsNoOp ==
  [][(op' = "stop" /\ ~isBotRunning) =>
       UNCHANGED <<isBotRunning, loopTimeoutId, timers, chain, stratVars,
                   envVars, lastIssue, actions>>]_vars

\* C37 witness: stop() has returned with the flag clear and a fee still in
\* the cache, which a reset would have cleared.
C37_Witness ==
  /\ op = "stop"
  /\ ~isBotRunning
  /\ takerFeePercentState # Null

\* C38: a tick that finds no account state, a total collateral that is not
\* positive, or no price leaves the strategy state as it is: nothing is
\* appended to the queue, and EMA, fee cache and entry price keep their
\* values.
C38_GatedTickKeepsState ==
  [][(nTicks' > nTicks
      /\ lastCheck'.missing \in {"account", "collateral", "price"})
       => UNCHANGED stratVars]_vars

\* C38 witness: a tick has returned on the collateral gate with samples in
\* the queue, an EMA and a fee stored.
C38_Witness ==
  /\ op = "timer"
  /\ lastCheck.missing = "collateral"
  /\ priceQueue # <<>>
  /\ lastEMA # NullEMA
  /\ takerFeePercentState # Null

\* C39: in every state, and so in every state between ticks, the stored
\* EMA is defined exactly when the queue holds at least CALCULATION_PERIOD
\* samples: a reset clears both, and no EMA is carried into a shorter
\* window.
C39_EmaIffFullWindow ==
  (lastEMA # NullEMA) <=> (Len(priceQueue) >= CALCULATION_PERIOD)

\* C39 witness: between ticks of a second run the window has filled again
\* and an EMA is stored.
C39_Witness ==
  /\ TicksInFlight = {}
  /\ nStarts = 2
  /\ Len(priceQueue) = CALCULATION_PERIOD
  /\ lastEMA # NullEMA
  /\ lastEMA[2] # 0

====
